---------------------------- MODULE Spec2Model ----------------------------
(***************************************************************************)
(* AI Things Considered: the daily comic strip pipeline of                 *)
(* execution/ai_things_considered.py.                                      *)
(*                                                                         *)
(* Text is a sequence of one-character strings.  A story is its 1-based    *)
(* position in the fetched feed; a prompt is identified by the story it    *)
(* was synthesised from; a panel image by the prompt it was generated      *)
(* from.  A file's content is the number of the run that wrote it (images) *)
(* or the document itself (JSON files).                                    *)
(***************************************************************************)
EXTENDS Integers, Sequences, FiniteSets, TLC

VARIABLES
    pc,           \* position of main() (or "idle" between two runs)
    run,          \* number of runs started so far
    today,        \* main: today (the date string of this run)
    all_stories,  \* main: len(all_stories)
    selected,     \* main: selected_stories
    prompts,      \* main: prompts
    panels,       \* main: panels
    attempt,      \* generate_panel_image: attempt
    delays,       \* generate_panel_image: the time.sleep calls of this call
    strip,        \* main: strip
    failure,      \* the exception that ended main(), or "none"
    written,      \* the files this run has written so far
    png,          \* FULLRES_DIR: the dates that have a {date}.png
    jpg,          \* WEB_OUTPUT_DIR: {date}.jpg
    json,         \* WEB_OUTPUT_DIR: {date}.json
    latest_json,  \* WEB_OUTPUT_DIR: latest.json
    latest1,      \* WEB_OUTPUT_DIR: latest-1.jpg
    latest2,      \* WEB_OUTPUT_DIR: latest-2.jpg
    archive,      \* WEB_OUTPUT_DIR: archive.json
    completed,    \* history: the dates of the runs that completed, in order
    input,        \* the arguments of a function called on its own
    output        \* its result

mainVars == <<pc, run, today, all_stories, selected, prompts, panels, attempt,
              delays, strip, failure, written, png, jpg, json, latest_json,
              latest1, latest2, archive, completed>>
callVars == <<input, output>>
vars == <<pc, run, today, all_stories, selected, prompts, panels, attempt,
          delays, strip, failure, written, png, jpg, json, latest_json,
          latest1, latest2, archive, completed, input, output>>

----------------------------------------------------------------------------
(* Program constants                                                       *)

MAX_RETRIES == 3
RETRY_BASE_DELAY == 2
NUM_PANELS == 6
MIN_PANELS_REQUIRED == 4

(* Bounds of the model                                                     *)

MaxRuns == 2       \* runs of main() in one behaviour
MaxStories == 7    \* stories the feed yields
MaxLen == 4        \* length of the enumerated response texts

----------------------------------------------------------------------------
(* Text                                                                    *)

Digits == {"0", "1", "2", "3", "4", "5", "6", "7", "8", "9"}

DigitVal(c) ==
    CASE c = "0" -> 0 [] c = "1" -> 1 [] c = "2" -> 2 [] c = "3" -> 3
      [] c = "4" -> 4 [] c = "5" -> 5 [] c = "6" -> 6 [] c = "7" -> 7
      [] c = "8" -> 8 [] c = "9" -> 9

\* The whitespace characters of the texts
Whitespace == {" ", "\n", "\t"}

\* str.strip(): the text without its leading and trailing whitespace
RECURSIVE LStrip(_)
LStrip(s) == IF s # <<>> /\ Head(s) \in Whitespace THEN LStrip(Tail(s)) ELSE s

RECURSIVE RStrip(_)
RStrip(s) ==
    IF s # <<>> /\ s[Len(s)] \in Whitespace
    THEN RStrip(SubSeq(s, 1, Len(s) - 1))
    ELSE s

Strip(s) == RStrip(LStrip(s))

\* The texts of length at most n over the alphabet A
RECURSIVE TextsUpTo(_, _)
TextsUpTo(A, n) ==
    IF n = 0 THEN {<<>>}
    ELSE LET shorter == TextsUpTo(A, n - 1)
         IN  shorter \cup {Append(s, c) : s \in shorter, c \in A}

----------------------------------------------------------------------------
(* select_stories: the parse of the selector's response                    *)

\* The character class [\d,\s] of the pattern
InClass(c) == c \in Digits \cup {","} \cup Whitespace

\* The end of the maximal run of class characters starting at position i
RECURSIVE RunEnd(_, _)
RunEnd(s, i) == IF i <= Len(s) /\ InClass(s[i]) THEN RunEnd(s, i + 1) ELSE i

\* re.match of \[[\d,\s]+\] at position i: "]" is not in the class, so the
\* only way to match is the maximal run followed by "]"
MatchAt(s, i) ==
    /\ s[i] = "["
    /\ RunEnd(s, i + 1) > i + 1
    /\ RunEnd(s, i + 1) <= Len(s)
    /\ s[RunEnd(s, i + 1)] = "]"

\* re.search(r'\[[\d,\s]+\]', s): the leftmost match, or <<>> for None
re_search(s) ==
    LET starts == {i \in 1..Len(s) : MatchAt(s, i)}
    IN  IF starts = {} THEN <<>>
        ELSE LET i == CHOOSE k \in starts : \A j \in starts : k <= j
             IN  SubSeq(s, i, RunEnd(s, i + 1))

\* The pieces of s between its commas
RECURSIVE SplitCommas(_)
SplitCommas(s) ==
    LET cut == {i \in 1..Len(s) : s[i] = ","}
    IN  IF cut = {} THEN <<s>>
        ELSE LET i == CHOOSE k \in cut : \A j \in cut : k <= j
             IN  <<SubSeq(s, 1, i - 1)>> \o SplitCommas(SubSeq(s, i + 1, Len(s)))

\* A JSON number made of digits only: no leading zero
IsJsonInt(p) ==
    /\ p # <<>>
    /\ \A i \in 1..Len(p) : p[i] \in Digits
    /\ (Len(p) > 1 => p[1] # "0")

RECURSIVE IntVal(_)
IntVal(p) ==
    IF p = <<>> THEN 0
    ELSE 10 * IntVal(SubSeq(p, 1, Len(p) - 1)) + DigitVal(p[Len(p)])

\* json.loads of a text the pattern matched: "[", class characters, "]"
json_loads(m) ==
    LET inner  == SubSeq(m, 2, Len(m) - 1)
        pieces == SplitCommas(inner)
        elems  == [i \in 1..Len(pieces) |-> Strip(pieces[i])]
    IN  IF Strip(inner) = <<>>
        THEN [ok |-> TRUE, value |-> <<>>]
        ELSE IF \A i \in 1..Len(elems) : IsJsonInt(elems[i])
             THEN [ok |-> TRUE,
                   value |-> [i \in 1..Len(elems) |-> IntVal(elems[i])]]
             ELSE [ok |-> FALSE, value |-> <<>>]

\* lst[:n]
Take(lst, n) == SubSeq(lst, 1, IF Len(lst) < n THEN Len(lst) ELSE n)

\* stories[j] for a list of n stories: j in -n..n-1, else IndexError
IndexOk(n, j) == -n <= j /\ j < n
Subscript(n, j) == IF j >= 0 THEN j + 1 ELSE n + j + 1

\* select_stories(stories) for a feed of n stories, given the selector's
\* response.text: the list returned, or the exception raised
select_stories(n, text) ==
    LET response_text == Strip(text)
        match == re_search(response_text)
    IN  IF match # <<>>
        THEN LET parsed == json_loads(match)
                 indices == Take(parsed.value, NUM_PANELS)
             IN  IF ~parsed.ok
                 THEN [kind |-> "raise", exc |-> "JSONDecodeError", value |-> <<>>]
                 ELSE IF \E k \in 1..Len(indices) : ~IndexOk(n, indices[k] - 1)
                      THEN [kind |-> "raise", exc |-> "IndexError", value |-> <<>>]
                      ELSE [kind |-> "return", exc |-> "none",
                            value |-> [k \in 1..Len(indices) |->
                                          Subscript(n, indices[k] - 1)]]
        ELSE [kind |-> "return", exc |-> "none",
              value |-> Take([i \in 1..n |-> i], NUM_PANELS)]

----------------------------------------------------------------------------
(* Dates and file names                                                    *)

\* The date arguments of the runs, YYYY-MM-DD
Dates == { <<"2", "0", "2", "5", "-", "1", "2", "-", "3", "1">>,
           <<"2", "0", "2", "6", "-", "0", "1", "-", "1", "6">>,
           <<"2", "0", "2", "6", "-", "0", "1", "-", "1", "7">> }

\* datetime.strptime(today, "%Y-%m-%d").strftime("%B %d, %Y")
today_display(d) ==
    [month |-> IntVal(SubSeq(d, 6, 7)), day |-> IntVal(SubSeq(d, 9, 10)),
     year |-> IntVal(SubSeq(d, 1, 4))]

\* f"{date_str}.jpg"
ImageName(d) == d \o <<".", "j", "p", "g">>

\* The code point of a character of a file name
CharCode(c) ==
    CASE c \in Digits -> 48 + DigitVal(c)
      [] c = "-" -> 45
      [] c = "." -> 46
      [] OTHER -> 97

\* a < b for two strings: the order sorted() puts two paths of one directory in
RECURSIVE TextLess(_, _)
TextLess(a, b) ==
    IF b = <<>> THEN FALSE
    ELSE IF a = <<>> THEN TRUE
    ELSE IF Head(a) # Head(b) THEN CharCode(Head(a)) < CharCode(Head(b))
    ELSE TextLess(Tail(a), Tail(b))

\* sorted(S, reverse=True)
RECURSIVE SortedReverse(_)
SortedReverse(S) ==
    IF S = {} THEN <<>>
    ELSE LET m == CHOOSE x \in S : \A y \in S : y = x \/ TextLess(y, x)
         IN  <<m>> \o SortedReverse(S \ {m})

\* fnmatch of a file name against "????-??-??.jpg"
GlobMatch(name) ==
    /\ Len(name) = 14
    /\ name[5] = "-"
    /\ name[8] = "-"
    /\ SubSeq(name, 11, 14) = <<".", "j", "p", "g">>

Latest1Name == <<"l", "a", "t", "e", "s", "t", "-", "1", ".", "j", "p", "g">>
Latest2Name == <<"l", "a", "t", "e", "s", "t", "-", "2", ".", "j", "p", "g">>

\* The .jpg files of WEB_OUTPUT_DIR
JpgFiles(jpgs, l1, l2) ==
    {ImageName(d) : d \in {e \in Dates : jpgs[e] # 0}}
        \cup (IF l1 # 0 THEN {Latest1Name} ELSE {})
        \cup (IF l2 # 0 THEN {Latest2Name} ELSE {})

\* The content of a dated .jpg file named name
JpgContent(jpgs, name) == jpgs[SubSeq(name, 1, 10)]

----------------------------------------------------------------------------
(* compose_comic_strip                                                     *)

PANEL_WIDTH == 400
PANEL_HEIGHT == 600
COLS == 3
ROWS == 2
GUTTER == 12
BORDER == 3
HEADER_HEIGHT == 100
MARGIN == 30

\* ImageFont.truetype(..., 48) for the title and (..., 22) for the date
TITLE_FONT_SIZE == 48
DATE_FONT_SIZE == 22

strip_width == MARGIN * 2 + COLS * PANEL_WIDTH + (COLS - 1) * GUTTER
strip_height ==
    MARGIN * 2 + HEADER_HEIGHT + ROWS * PANEL_HEIGHT + (ROWS - 1) * GUTTER

\* A column step that leaves the gutter out
CellXNoGutter(i) == MARGIN + (i % COLS) * PANEL_WIDTH

\* The origin of the cell of slot i (0-based)
CellX(i) == MARGIN + (i % COLS) * (PANEL_WIDTH + GUTTER)
CellY(i) == MARGIN + HEADER_HEIGHT + (i \div COLS) * (PANEL_HEIGHT + GUTTER)

\* The rectangle draw.rectangle is given for slot i: <<x0, y0, x1, y1>>
BorderRect(i) ==
    <<CellX(i) - BORDER, CellY(i) - BORDER,
      CellX(i) + PANEL_WIDTH + BORDER, CellY(i) + PANEL_HEIGHT + BORDER>>

\* The slots the loop draws: "if panel is None: continue"
DrawnSlots(ps) == {i \in 0..(Len(ps) - 1) : ps[i + 1] # 0}

\* A loop that counts the pasted images instead of the positions: the
\* present panels are packed into the first slots
compose_comic_strip_packed(ps, date_str) ==
    LET k(i) == Cardinality({j \in DrawnSlots(ps) : j < i})
    IN  [size    |-> <<strip_width, strip_height>>,
         title   |-> <<MARGIN, MARGIN>>,
         date    |-> [at |-> <<MARGIN, MARGIN + 55>>, text |-> date_str],
         borders |-> {[slot |-> k(i), rect |-> BorderRect(k(i))] :
                         i \in DrawnSlots(ps)},
         pastes  |-> {[slot |-> k(i), at |-> <<CellX(k(i)), CellY(k(i))>>,
                       size |-> <<PANEL_WIDTH, PANEL_HEIGHT>>, image |-> ps[i + 1]] :
                         i \in DrawnSlots(ps)}]

\* A canvas cropped to the rows that hold an image
compose_comic_strip_cropped(ps, date_str) ==
    LET rows == IF \E i \in DrawnSlots(ps) : i >= COLS THEN ROWS
                ELSE IF DrawnSlots(ps) # {} THEN 1 ELSE 0
    IN  [size    |-> <<strip_width,
                       MARGIN * 2 + HEADER_HEIGHT + rows * PANEL_HEIGHT
                           + (IF rows > 0 THEN rows - 1 ELSE 0) * GUTTER>>,
         title   |-> <<MARGIN, MARGIN>>,
         date    |-> [at |-> <<MARGIN, MARGIN + 55>>, text |-> date_str],
         borders |-> {[slot |-> i, rect |-> BorderRect(i)] : i \in DrawnSlots(ps)},
         pastes  |-> {[slot |-> i, at |-> <<CellX(i), CellY(i)>>,
                       size |-> <<PANEL_WIDTH, PANEL_HEIGHT>>, image |-> ps[i + 1]] :
                         i \in DrawnSlots(ps)}]

\* compose_comic_strip(panels, date_str): what is drawn on the canvas.
\* A panel is 0 (None) or the prompt its image was generated from.
compose_comic_strip(ps, date_str) ==
    [size    |-> <<strip_width, strip_height>>,
     title   |-> <<MARGIN, MARGIN>>,
     date    |-> [at |-> <<MARGIN, MARGIN + 55>>, text |-> date_str],
     borders |-> {[slot |-> i, rect |-> BorderRect(i)] : i \in DrawnSlots(ps)},
     pastes  |-> {[slot |-> i, at |-> <<CellX(i), CellY(i)>>,
                   size |-> <<PANEL_WIDTH, PANEL_HEIGHT>>, image |-> ps[i + 1]] :
                     i \in DrawnSlots(ps)}]

----------------------------------------------------------------------------
(* save_metadata, update_latest_images, update_archive                     *)

\* The metadata document of save_metadata(stories, date_str)
Metadata(stories, date_str) ==
    [date    |-> date_str,
     image   |-> ImageName(date_str),
     stories |-> [i \in 1..Len(stories) |-> [panel |-> i, story |-> stories[i]]]]

\* sorted(...) without reverse=True
RECURSIVE Reversed(_)
Reversed(q) == IF q = <<>> THEN <<>> ELSE Append(Reversed(Tail(q)), Head(q))

ComicsAscending(jpgs, l1, l2) ==
    Reversed(SortedReverse({f \in JpgFiles(jpgs, l1, l2) : GlobMatch(f)}))

\* comics = sorted(WEB_OUTPUT_DIR.glob("????-??-??.jpg"), reverse=True)
Comics(jpgs, l1, l2) ==
    SortedReverse({f \in JpgFiles(jpgs, l1, l2) : GlobMatch(f)})

\* latest-1.jpg and latest-2.jpg after update_latest_images()
NewLatest1(jpgs, l1, l2) ==
    LET comics == Comics(jpgs, l1, l2)
    IN  IF Len(comics) >= 1 THEN JpgContent(jpgs, comics[1]) ELSE l1

NewLatest2(jpgs, l1, l2) ==
    LET comics == Comics(jpgs, l1, l2)
    IN  IF Len(comics) >= 2 THEN JpgContent(jpgs, comics[2]) ELSE l2

\* The archive document update_archive reads: {"comics": []} without a file
LoadArchive(a) == IF a = <<>> THEN [comics |-> <<>>] ELSE a[1]

\* update_archive without the check of existing_dates
update_archive_always_inserts(a, date_str) ==
    <<[comics |-> <<[date |-> date_str, image |-> ImageName(date_str)]>>
                      \o LoadArchive(a).comics]>>

\* update_archive that starts from an empty document instead of the file
update_archive_from_empty(a, date_str) ==
    <<[comics |-> <<[date |-> date_str, image |-> ImageName(date_str)]>>]>>

\* archive.json after update_archive(date_str)
update_archive(a, date_str) ==
    LET doc == LoadArchive(a)
        new_entry == [date |-> date_str, image |-> ImageName(date_str)]
        existing_dates == {doc.comics[i].date : i \in 1..Len(doc.comics)}
    IN  IF date_str \notin existing_dates
        THEN <<[comics |-> <<new_entry>> \o doc.comics]>>
        ELSE a

----------------------------------------------------------------------------
(* The capabilities' behaviours                                            *)

\* Responses of the selector that main() is run with
TextPermutation == <<"[", "3", ",", " ", "1", ",", " ", "2", ",", " ", "6", ",", " ", "5", ",", " ", "4", "]">>
TextShort == <<"[", "2", ",", " ", "1", ",", " ", "4", ",", " ", "3", ",", " ", "5", "]">>
TextNoArray == <<"n", "o", "n", "e">>
TextOutOfRange == <<"[", "9", "]">>
SelectorTexts == {TextPermutation, TextShort, TextNoArray, TextOutOfRange}

\* The feeds main() is run with, and select_stories for each feed and response
FeedSizes == {MaxStories}
Selections ==
    [n \in FeedSizes, text \in SelectorTexts |-> select_stories(n, text)]

\* What one image-generation request can do, and the exception the attempt
\* then raises inside the try block
AttemptFailures == {"api_error", "no_candidates", "no_inline", "bad_decode"}

Raised(kind) ==
    CASE kind = "api_error" -> "APIError"
      [] kind = "no_candidates" -> "ValueError"
      [] kind = "no_inline" -> "ValueError"
      [] kind = "bad_decode" -> "UnidentifiedImageError"

\* "except Exception as e": every one of these classes derives from Exception
CaughtValueErrorOnly(exc) == exc = "ValueError"

Caught(exc) == exc \in {"APIError", "ValueError", "UnidentifiedImageError"}

\* A retry test that lets a fourth request through
MayRetryOnceMore(a) == a <= MAX_RETRIES

\* "if attempt < MAX_RETRIES": attempt a failed and another one follows
MayRetry(a) == a < MAX_RETRIES

\* A backoff that starts at the second power
BackoffFromSecondPower(a) == RETRY_BASE_DELAY * (2 ^ a)

\* delay = RETRY_BASE_DELAY * (2 ** (attempt - 1)), slept after failed attempt a
Backoff(a) == RETRY_BASE_DELAY * (2 ^ (a - 1))

----------------------------------------------------------------------------
(* main()                                                                  *)

NoCall == [fn |-> "none"]
NoResult == [kind |-> "pending", exc |-> "none", value |-> <<>>]

MainInit ==
    /\ pc = "idle"
    /\ run = 0
    /\ today = <<>>
    /\ all_stories = 0
    /\ selected = <<>>
    /\ prompts = <<>>
    /\ panels = <<>>
    /\ attempt = 1
    /\ delays = <<>>
    /\ strip = <<>>
    /\ failure = "none"
    /\ written = {}
    /\ png = {}
    /\ jpg = [d \in Dates |-> 0]
    /\ json = [d \in Dates |-> <<>>]
    /\ latest_json = <<>>
    /\ latest1 = 0
    /\ latest2 = 0
    /\ archive = <<>>
    /\ completed = <<>>

Init ==
    /\ MainInit
    /\ input = NoCall
    /\ output = NoResult

files == <<png, jpg, json, latest_json, latest1, latest2, archive>>
locals == <<today, all_stories, selected, prompts, panels, attempt, delays, strip>>

\* The exception e leaves main(): the process ends
Die(e) ==
    /\ pc' = "failed"
    /\ failure' = e

\* successful_panels = sum(1 for p in panels if p is not None)
successful_panels(ps) == Cardinality({i \in 1..Len(ps) : ps[i] # 0})

\* "if successful_panels < MIN_PANELS_REQUIRED: raise RuntimeError"
GateAbortsBelowThree(n) == n < MIN_PANELS_REQUIRED - 1

GateAbortsAtFour(n) == n <= MIN_PANELS_REQUIRED

GateAborts(n) == n < MIN_PANELS_REQUIRED

\* The loop of step 3 goes on, or step 4 starts, or (nothing selected) the gate
PcAfterSelect(sel) == IF sel = <<>> THEN "gate" ELSE "prompts"
\* A loop that hands each prompt to the panel generator as soon as it exists
PcAfterPromptInterleaved(ps, sel) == "panels"

PcAfterPrompt(ps, sel) == IF Len(ps) < Len(sel) THEN "prompts" ELSE "panels"
PcAfterPanel(pn, ps) == IF Len(pn) < Len(ps) THEN "panels" ELSE "gate"

\* python ai_things_considered.py <date>: a new process
StartRun(d) ==
    /\ pc \in {"idle", "done", "failed"}
    /\ run < MaxRuns
    /\ run' = run + 1
    /\ today' = d
    /\ pc' = "fetch"
    /\ failure' = "none"
    /\ written' = {}
    /\ all_stories' = 0
    /\ selected' = <<>>
    /\ prompts' = <<>>
    /\ panels' = <<>>
    /\ attempt' = 1
    /\ delays' = <<>>
    /\ strip' = <<>>
    /\ UNCHANGED <<files, completed, callVars>>

\* Step 1: all_stories = fetch_stories()
FetchStories ==
    /\ pc = "fetch"
    /\ all_stories' \in FeedSizes
    /\ pc' = "select"
    /\ UNCHANGED <<run, today, selected, prompts, panels, attempt, delays, strip,
                   failure, written, files, completed, callVars>>

\* Step 2: selected_stories = select_stories(all_stories)
SelectStories(text) ==
    /\ pc = "select"
    /\ LET r == Selections[all_stories, text]
       IN  /\ selected' = r.value
           /\ pc' = IF r.kind = "return" THEN PcAfterSelect(r.value) ELSE "failed"
           /\ failure' = IF r.kind = "return" THEN failure ELSE r.exc
    /\ UNCHANGED <<run, today, all_stories, prompts, panels, attempt, delays,
                   strip, written, files, completed, callVars>>

\* Step 3: prompts.append(generate_image_prompt(story))
GenerateImagePrompt ==
    /\ pc = "prompts"
    /\ prompts' = Append(prompts, selected[Len(prompts) + 1])
    /\ pc' = PcAfterPrompt(prompts', selected)
    /\ UNCHANGED <<run, today, all_stories, selected, panels, attempt, delays,
                   strip, failure, written, files, completed, callVars>>

\* The text-generation request of step 2 or step 3 raises: nothing catches it
TextGenerationRaises ==
    /\ pc \in {"select", "prompts"}
    /\ Die("APIError")
    /\ UNCHANGED <<run, locals, written, files, completed, callVars>>

\* Step 4, generate_panel_image: an attempt returns the image; main() appends
\* it and saves it to TEMP_DIR
PanelAttemptSucceeds ==
    /\ pc = "panels"
    /\ panels' = Append(panels, prompts[Len(panels) + 1])
    /\ written' = written \cup {"panel.png"}
    /\ attempt' = 1
    /\ delays' = <<>>
    /\ pc' = PcAfterPanel(panels', prompts)
    /\ UNCHANGED <<run, today, all_stories, selected, prompts, strip, failure,
                   files, completed, callVars>>

\* ... or panel.save(panel_path) raises
PanelSaveRaises ==
    /\ pc = "panels"
    /\ panels' = Append(panels, prompts[Len(panels) + 1])
    /\ attempt' = 1
    /\ delays' = <<>>
    /\ Die("OSError")
    /\ UNCHANGED <<run, today, all_stories, selected, prompts, strip, written,
                   files, completed, callVars>>

\* Step 4, generate_panel_image: an attempt fails
PanelAttemptFails(kind) ==
    /\ pc = "panels"
    /\ IF ~Caught(Raised(kind))
       THEN /\ Die(Raised(kind))
            /\ UNCHANGED <<panels, attempt, delays>>
       ELSE IF MayRetry(attempt)
       THEN /\ delays' = Append(delays, Backoff(attempt))
            /\ attempt' = attempt + 1
            /\ UNCHANGED <<pc, panels, failure>>
       ELSE /\ panels' = Append(panels, 0)
            /\ attempt' = 1
            /\ delays' = <<>>
            /\ pc' = PcAfterPanel(panels', prompts)
            /\ UNCHANGED failure
    /\ UNCHANGED <<run, today, all_stories, selected, prompts, strip, written,
                   files, completed, callVars>>

\* The check of the panel success rate
Gate ==
    /\ pc = "gate"
    /\ IF GateAborts(successful_panels(panels))
       THEN Die("RuntimeError")
       ELSE pc' = "compose" /\ UNCHANGED failure
    /\ UNCHANGED <<run, locals, written, files, completed, callVars>>

\* Step 5: strip = compose_comic_strip(panels, today_display)
Compose ==
    /\ pc = "compose"
    /\ strip' = <<compose_comic_strip(panels, today_display(today))>>
    /\ pc' = "save_png"
    /\ UNCHANGED <<run, today, all_stories, selected, prompts, panels, attempt,
                   delays, failure, written, files, completed, callVars>>

\* strip.save(fullres_path)
SavePng ==
    /\ pc = "save_png"
    /\ png' = png \cup {today}
    /\ written' = written \cup {"date.png"}
    /\ pc' = "save_jpg"
    /\ UNCHANGED <<run, locals, failure, jpg, json, latest_json, latest1,
                   latest2, archive, completed, callVars>>

\* web_strip.save(web_path, "JPEG", ...)
SaveJpg ==
    /\ pc = "save_jpg"
    /\ jpg' = [jpg EXCEPT ![today] = run]
    /\ written' = written \cup {"date.jpg"}
    /\ pc' = "save_metadata"
    /\ UNCHANGED <<run, locals, failure, png, json, latest_json, latest1,
                   latest2, archive, completed, callVars>>

\* Step 6: save_metadata(selected_stories, today)
\* save_metadata given only the stories whose panel exists
SaveMetadataPresentOnly ==
    /\ pc = "save_metadata"
    /\ LET doc == [Metadata(selected, today) EXCEPT !.stories =
                      SelectSeq(@, LAMBDA entry : panels[entry.panel] # 0)]
       IN  /\ json' = [json EXCEPT ![today] = <<doc>>]
           /\ latest_json' = <<doc>>
    /\ written' = written \cup {"date.json", "latest.json"}
    /\ pc' = "update_latest_images"
    /\ UNCHANGED <<run, locals, failure, png, jpg, latest1, latest2, archive,
                   completed, callVars>>

SaveMetadata ==
    /\ pc = "save_metadata"
    /\ json' = [json EXCEPT ![today] = <<Metadata(selected, today)>>]
    /\ latest_json' = <<Metadata(selected, today)>>
    /\ written' = written \cup {"date.json", "latest.json"}
    /\ pc' = "update_latest_images"
    /\ UNCHANGED <<run, locals, failure, png, jpg, latest1, latest2, archive,
                   completed, callVars>>

\* Step 7: update_latest_images()
UpdateLatestImages ==
    /\ pc = "update_latest_images"
    /\ latest1' = NewLatest1(jpg, latest1, latest2)
    /\ latest2' = NewLatest2(jpg, latest1, latest2)
    /\ written' = written
                    \cup (IF Len(Comics(jpg, latest1, latest2)) >= 1
                          THEN {"latest-1.jpg"} ELSE {})
                    \cup (IF Len(Comics(jpg, latest1, latest2)) >= 2
                          THEN {"latest-2.jpg"} ELSE {})
    /\ pc' = "update_archive"
    /\ UNCHANGED <<run, locals, failure, png, jpg, json, latest_json, archive,
                   completed, callVars>>

\* Step 8: update_archive(today), and main() returns
UpdateArchive ==
    /\ pc = "update_archive"
    /\ archive' = update_archive(archive, today)
    /\ written' = written
                    \cup (IF archive' # archive THEN {"archive.json"} ELSE {})
    /\ completed' = Append(completed, today)
    /\ pc' = "done"
    /\ UNCHANGED <<run, locals, failure, png, jpg, json, latest_json, latest1,
                   latest2, callVars>>

\* A write of the persistence phase raises (a filesystem error): the writes
\* the step made before it stay
SaveRaises ==
    /\ pc \in {"save_png", "save_jpg", "save_metadata", "update_latest_images",
               "update_archive"}
    /\ Die("OSError")
    /\ UNCHANGED <<run, locals, written, files, completed, callVars>>

\* save_metadata: the write of latest.json raises after {date}.json is written
SaveMetadataLatestRaises ==
    /\ pc = "save_metadata"
    /\ json' = [json EXCEPT ![today] = <<Metadata(selected, today)>>]
    /\ written' = written \cup {"date.json"}
    /\ Die("OSError")
    /\ UNCHANGED <<run, locals, png, jpg, latest_json, latest1, latest2, archive,
                   completed, callVars>>

\* update_latest_images: the second copy raises after the first is made
UpdateLatestSecondRaises ==
    /\ pc = "update_latest_images"
    /\ Len(Comics(jpg, latest1, latest2)) >= 2
    /\ latest1' = NewLatest1(jpg, latest1, latest2)
    /\ written' = written \cup {"latest-1.jpg"}
    /\ Die("OSError")
    /\ UNCHANGED <<run, locals, png, jpg, json, latest_json, latest2, archive,
                   completed, callVars>>

RunStep ==
    \/ FetchStories
    \/ \E text \in SelectorTexts : SelectStories(text)
    \/ GenerateImagePrompt
    \/ TextGenerationRaises
    \/ PanelAttemptSucceeds
    \/ PanelSaveRaises
    \/ \E kind \in AttemptFailures : PanelAttemptFails(kind)
    \/ Gate
    \/ Compose
    \/ SavePng
    \/ SaveJpg
    \/ SaveMetadata
    \/ UpdateLatestImages
    \/ UpdateArchive
    \/ SaveRaises
    \/ SaveMetadataLatestRaises
    \/ UpdateLatestSecondRaises

Next ==
    \/ \E d \in Dates : StartRun(d)
    \/ RunStep

Spec == Init /\ [][Next]_vars

\* main() is sequential: a step that can be taken is taken
LiveSpec == Spec /\ WF_vars(RunStep)

----------------------------------------------------------------------------
(* select_stories called on its own                                        *)

SelectAlphabet == {"[", "]", ",", " ", "0", "1", "9", "x"}

TextSeven == <<"[", "3", ",", " ", "7", ",", " ", "1", ",", " ", "2", ",", " ", "5", ",", " ", "4", ",", " ", "6", "]">>
TextLeading == <<"S", "u", "r", "e", ":", " ", "[", "4", ",", " ", "2", ",", " ", "6", ",", " ", "1", ",", " ", "3", ",", " ", "5", "]", " ", "f", "i", "t", "s">>
TextRepeated == <<"[", "1", ",", " ", "1", ",", " ", "1", ",", " ", "1", ",", " ", "1", ",", " ", "1", "]">>
TextZero == <<"[", "0", ",", " ", "1", ",", " ", "2", ",", " ", "3", ",", " ", "4", ",", " ", "5", "]">>

ResponseTexts ==
    TextsUpTo(SelectAlphabet, MaxLen)
        \cup SelectorTexts
        \cup {TextSeven, TextLeading, TextRepeated, TextZero}

InitSelect ==
    /\ MainInit
    /\ input \in {[fn |-> "select_stories", n |-> n, text |-> t] :
                     n \in 0..MaxStories, t \in ResponseTexts}
    /\ output = NoResult

CallSelectStories ==
    /\ input.fn = "select_stories"
    /\ output.kind = "pending"
    /\ output' = select_stories(input.n, input.text)
    /\ UNCHANGED <<mainVars, input>>

SpecSelect == InitSelect /\ [][CallSelectStories]_vars

----------------------------------------------------------------------------
(* generate_image_prompt                                                   *)

STYLE_PREFIX ==
    <<"V", "i", "n", "t", "a", "g", "e", " ", "c", "o", "m", "i",
       "c", " ", "p", "a", "n", "e", "l", " ", "i", "l", "l", "u",
       "s", "t", "r", "a", "t", "i", "o", "n", ".", " ", "M", "u",
       "t", "e", "d", " ", "e", "a", "r", "t", "h", " ", "t", "o",
       "n", "e", " ", "p", "a", "l", "e", "t", "t", "e", " ", "-",
       " ", "c", "r", "e", "a", "m", ",", " ", "w", "a", "r", "m",
       " ", "b", "r", "o", "w", "n", ",", " ", "d", "u", "s", "t",
       "y", " ", "b", "l", "u", "e", ",", " ", "s", "a", "g", "e",
       " ", "g", "r", "e", "e", "n", ",", " ", "f", "a", "d", "e",
       "d", " ", "o", "c", "h", "r", "e", ".", " ", "F", "l", "a",
       "t", " ", "g", "e", "o", "m", "e", "t", "r", "i", "c", " ",
       "s", "h", "a", "p", "e", "s", " ", "w", "i", "t", "h", " ",
       "c", "l", "e", "a", "n", " ", "p", "r", "e", "c", "i", "s",
       "e", " ", "l", "i", "n", "e", "w", "o", "r", "k", ".", " ",
       "D", "i", "a", "g", "r", "a", "m", "m", "a", "t", "i", "c",
       ",", " ", "n", "o", "s", "t", "a", "l", "g", "i", "c", " ",
       "m", "i", "d", "-", "c", "e", "n", "t", "u", "r", "y", " ",
       "n", "e", "w", "s", "p", "a", "p", "e", "r", " ", "i", "l",
       "l", "u", "s", "t", "r", "a", "t", "i", "o", "n", " ", "a",
       "e", "s", "t", "h", "e", "t", "i", "c", ".", " ", "H", "a",
       "n", "d", "-", "d", "r", "a", "w", "n", " ", "f", "e", "e",
       "l", " ", "w", "i", "t", "h", " ", "a", "r", "c", "h", "i",
       "t", "e", "c", "t", "u", "r", "a", "l", " ", "p", "r", "e",
       "c", "i", "s", "i", "o", "n", ".">>

\* str.lower() on one character
LowerChar(c) ==
    CASE c = "A" -> "a" [] c = "B" -> "b" [] c = "C" -> "c" [] c = "D" -> "d" [] c = "E" -> "e" [] c = "F" -> "f" [] c = "G" -> "g" [] c = "H" -> "h" [] c = "I" -> "i" [] c = "J" -> "j" [] c = "K" -> "k" [] c = "L" -> "l" [] c = "M" -> "m"
      [] c = "N" -> "n" [] c = "O" -> "o" [] c = "P" -> "p" [] c = "Q" -> "q" [] c = "R" -> "r" [] c = "S" -> "s" [] c = "T" -> "t" [] c = "U" -> "u" [] c = "V" -> "v" [] c = "W" -> "w" [] c = "X" -> "x" [] c = "Y" -> "y" [] c = "Z" -> "z"
      [] OTHER -> c

Lower(s) == [i \in 1..Len(s) |-> LowerChar(s[i])]

\* s.startswith(p)
StartsWith(s, p) == Len(s) >= Len(p) /\ SubSeq(s, 1, Len(p)) = p

\* The style keyword of the startswith test
Keyword == <<"v", "i", "n", "t", "a", "g", "e">>

\* generate_image_prompt(story), given the response.text of the request
generate_image_prompt(text) ==
    LET image_prompt == Strip(text)
    IN  IF ~StartsWith(Lower(image_prompt), Keyword)
        THEN STYLE_PREFIX \o <<" ">> \o image_prompt
        ELSE image_prompt

\* The responses generate_image_prompt is called with
UpperChar(c) == CHOOSE u \in {"V", "I", "N", "T", "A", "G", "E"} : LowerChar(u) = c
Casings(w) ==
    {w, [i \in 1..Len(w) |-> UpperChar(w[i])],
     [i \in 1..Len(w) |-> IF i = 1 THEN UpperChar(w[i]) ELSE w[i]]}
Heads ==
    UNION {Casings(SubSeq(Keyword, 1, n)) : n \in 0..Len(Keyword)}
        \cup {STYLE_PREFIX, Lower(STYLE_PREFIX)}
Tails == {<<>>, <<" ", "c", "a", "r">>, <<"s">>, <<"x">>}
Pads == {<<>>, <<" ">>, <<"\n">>}
PromptTexts == {l \o h \o t \o r : l \in Pads, h \in Heads, t \in Tails, r \in Pads}

InitPrompt ==
    /\ MainInit
    /\ input \in {[fn |-> "generate_image_prompt", text |-> t] : t \in PromptTexts}
    /\ output = NoResult

CallGenerateImagePrompt ==
    /\ input.fn = "generate_image_prompt"
    /\ output.kind = "pending"
    /\ output' = [kind |-> "return", exc |-> "none",
                  value |-> generate_image_prompt(input.text)]
    /\ UNCHANGED <<mainVars, input>>

SpecPrompt == InitPrompt /\ [][CallGenerateImagePrompt]_vars

----------------------------------------------------------------------------
(* compose_comic_strip called on its own                                   *)

\* Every combination of present and absent panels over the NUM_PANELS
\* positions; the image of position i is identified by i
PanelCombinations ==
    {[i \in 1..NUM_PANELS |-> IF i \in S THEN i ELSE 0] :
        S \in SUBSET (1..NUM_PANELS)}

InitCompose ==
    /\ MainInit
    /\ input \in {[fn |-> "compose_comic_strip", panels |-> ps,
                    date_str |-> today_display(d)] :
                     ps \in PanelCombinations, d \in Dates}
    /\ output = NoResult

CallComposeComicStrip ==
    /\ input.fn = "compose_comic_strip"
    /\ output.kind = "pending"
    /\ output' = [kind |-> "return", exc |-> "none",
                  value |-> compose_comic_strip(input.panels, input.date_str)]
    /\ UNCHANGED <<mainVars, input>>

SpecCompose == InitCompose /\ [][CallComposeComicStrip]_vars

----------------------------------------------------------------------------
(* generate_panel_image called on its own                                  *)

\* The call in progress: log has one entry per attempt made, with what the
\* request did ("image" or a failure kind) and the seconds slept after it
NoPanelResult == [kind |-> "pending", exc |-> "none", value |-> 0, log |-> <<>>]

InitPanel ==
    /\ MainInit
    /\ input \in {[fn |-> "generate_panel_image", prompt |-> p, panel_num |-> i] :
                     p \in 1..MaxStories, i \in 1..NUM_PANELS}
    /\ output = NoPanelResult

\* The response's first candidate has an inline_data part and Image.open
\* accepts it: return the image
CallAttemptSucceeds ==
    /\ input.fn = "generate_panel_image"
    /\ output.kind = "pending"
    /\ output' = [kind |-> "return", exc |-> "none", value |-> input.prompt,
                  log |-> Append(output.log, [outcome |-> "image", slept |-> 0])]
    /\ UNCHANGED <<mainVars, input>>

\* The attempt raises inside the try block
CallAttemptFails(kind) ==
    /\ input.fn = "generate_panel_image"
    /\ output.kind = "pending"
    /\ LET a == Len(output.log) + 1
       IN  output' =
             IF ~Caught(Raised(kind))
             THEN [output EXCEPT !.kind = "raise", !.exc = Raised(kind)]
             ELSE IF MayRetry(a)
             THEN [output EXCEPT !.log =
                      Append(@, [outcome |-> kind, slept |-> Backoff(a)])]
             ELSE [output EXCEPT !.kind = "return",
                      !.log = Append(@, [outcome |-> kind, slept |-> 0])]
    /\ UNCHANGED <<mainVars, input>>

NextPanel ==
    \/ CallAttemptSucceeds
    \/ \E kind \in AttemptFailures : CallAttemptFails(kind)

SpecPanel == InitPanel /\ [][NextPanel]_vars

----------------------------------------------------------------------------
(* The claims                                                              *)

Published ==
    {"date.png", "date.jpg", "date.json", "latest.json", "latest-1.jpg",
     "latest-2.jpg", "archive.json"}

PastGate ==
    {"compose", "save_png", "save_jpg", "save_metadata", "update_latest_images",
     "update_archive", "done"}

\* The calendar date of a date string, as a number
DateNum(d) ==
    IntVal(SubSeq(d, 1, 4)) * 10000 + IntVal(SubSeq(d, 6, 7)) * 100
        + IntVal(SubSeq(d, 9, 10))

\* The dates that have a {date}.jpg
Dated == {d \in Dates : jpg[d] # 0}

\* The n-th greatest date of a non-empty set of dates
Greatest(S) == CHOOSE d \in S : \A e \in S : DateNum(e) <= DateNum(d)
SecondGreatest(S) == Greatest(S \ {Greatest(S)})

\* The entries of archive.json for date d
Entries(d) ==
    {i \in 1..Len(LoadArchive(archive).comics) :
        LoadArchive(archive).comics[i].date = d}

CompletedArtifacts ==
    /\ strip = <<compose_comic_strip(panels, today_display(today))>>
    /\ \A i \in 0..(NUM_PANELS - 1) :
          IF i < Len(panels) /\ panels[i + 1] # 0
          THEN \E c \in strip[1].pastes :
                  c.slot = i /\ c.image = prompts[i + 1]
                    /\ c.at = <<CellX(i), CellY(i)>>
          ELSE \A c \in strip[1].pastes : c.slot # i
    /\ today \in png
    /\ jpg[today] = run
    /\ json[today] = <<Metadata(selected, today)>>
    /\ latest_json = <<Metadata(selected, today)>>
    /\ latest1 # 0
    /\ (Cardinality(Dated) >= 2 => latest2 # 0)
    /\ Entries(today) # {}
    /\ {"date.png", "date.jpg", "date.json", "latest.json", "latest-1.jpg"}
          \subseteq written

\* C2: the gate never aborts a run with MIN_PANELS_REQUIRED or more
\* successes; such a run, once past the gate, goes on to completion unless a
\* write of the persistence phase fails; and a completed run has composed the
\* strip from all its slots and written {date}.png, {date}.jpg, {date}.json,
\* latest.json, the latest-N images and the archive entry of its date.
C2_EnoughPanelsCompletes ==
    /\ [](failure = "RuntimeError" =>
            successful_panels(panels) < MIN_PANELS_REQUIRED)
    /\ []((pc \in {"compose", "done"} \/ (pc = "failed" /\ failure = "OSError"
                                              /\ Len(panels) = Len(prompts)
                                              /\ strip # <<>>))
            => successful_panels(panels) >= MIN_PANELS_REQUIRED)
    /\ [](pc = "done" => CompletedArtifacts)
    /\ (pc = "compose") ~> (pc = "done" \/ (pc = "failed" /\ failure = "OSError"))

C2_Witness ==
    /\ pc = "done"
    /\ Len(panels) = NUM_PANELS
    /\ successful_panels(panels) = MIN_PANELS_REQUIRED
    /\ panels[2] = 0
    /\ CompletedArtifacts

\* C3: generate_panel_image never raises to main(): whatever an attempt does
\* (the request raises, no candidates, no inline image data, image data that
\* does not decode), the call goes on to its next attempt or returns the
\* image or None; during step 4 main() dies only of its own panel.save.
C3_PanelGeneratorNeverRaises ==
    [][pc = "panels" =>
          \/ /\ pc' \in {"panels", "gate"}
             /\ failure' = "none"
             /\ \/ panels' = panels /\ attempt' = attempt + 1
                \/ panels' = Append(panels, 0)
                \/ panels' = Append(panels, prompts[Len(panels) + 1])
          \/ /\ pc' = "failed"
             /\ failure' = "OSError"
             /\ panels' = Append(panels, prompts[Len(panels) + 1])]_vars

C3_Witness ==
    /\ pc = "panels"
    /\ Len(panels) = 2
    /\ panels[1] = 0
    /\ panels[2] # 0
    /\ attempt = MAX_RETRIES
    /\ failure = "none"

\* C4: when all NUM_PANELS slots were generated and composed, a border
\* rectangle is drawn around every cell i in 0..NUM_PANELS-1, at the position
\* of the cell, whether slot i holds an image or is absent.
C4_BorderAroundEverySlot ==
    (strip # <<>> /\ Len(panels) = NUM_PANELS) =>
        \A i \in 0..(NUM_PANELS - 1) :
            [slot |-> i, rect |-> BorderRect(i)] \in strip[1].borders

\* C5: archive.json holds exactly one entry for each date that had a
\* completed run (and no entry for any other date), however often the date
\* was run.
C5_OneArchiveEntryPerDate ==
    \A d \in Dates :
        Cardinality(Entries(d)) =
            IF \E i \in 1..Len(completed) : completed[i] = d THEN 1 ELSE 0

C5_Witness ==
    /\ pc = "done"
    /\ Len(completed) = 2
    /\ completed[1] = completed[2]
    /\ Cardinality(Entries(today)) = 1

\* C6: after a completed run, latest-1.jpg is a copy of the {date}.jpg of the
\* greatest date in the output directory and, when two dated images exist,
\* latest-2.jpg is a copy of the one of the second greatest date, in whatever
\* order the dates were run.
C6_LatestImagesAreNewest ==
    pc = "done" =>
        /\ latest1 = jpg[Greatest(Dated)]
        /\ Cardinality(Dated) >= 2 => latest2 = jpg[SecondGreatest(Dated)]

C6_Witness ==
    /\ pc = "done"
    /\ Len(completed) = 2
    /\ DateNum(completed[2]) < DateNum(completed[1])
    /\ latest1 = jpg[completed[1]]
    /\ latest2 = jpg[completed[2]]
    /\ latest2 = run

\* C7: given a feed of at least NUM_PANELS stories, select_stories returns
\* exactly NUM_PANELS stories whenever it returns.
C7_SelectionHasKStories ==
    (input.fn = "select_stories" /\ input.n >= NUM_PANELS
        /\ output.kind = "return") =>
        Len(output.value) = NUM_PANELS

\* C8: given a feed of at least NUM_PANELS stories, select_stories never
\* raises, whatever the selector's response text.
C8_SelectionNeverRaises ==
    (input.fn = "select_stories" /\ input.n >= NUM_PANELS) =>
        output.kind # "raise"

\* C9: the entries of archive.json are ordered by date, strictly descending.
C9_ArchiveNewestFirst ==
    LET comics == LoadArchive(archive).comics
    IN  \A i, j \in 1..Len(comics) :
            i < j => DateNum(comics[i].date) > DateNum(comics[j].date)

\* C10: the string generate_image_prompt returns begins with STYLE_PREFIX.
C10_PromptBeginsWithStylePrefix ==
    (input.fn = "generate_image_prompt" /\ output.kind = "return") =>
        StartsWith(output.value, STYLE_PREFIX)

\* C11: the canvas compose_comic_strip returns has the same size for every
\* combination of present and absent panels: 2*MARGIN + COLS*PANEL_WIDTH +
\* (COLS-1)*GUTTER wide (1284) and 2*MARGIN + HEADER_HEIGHT +
\* ROWS*PANEL_HEIGHT + (ROWS-1)*GUTTER high (1372).
C11_CanvasSizeIsFixed ==
    (input.fn = "compose_comic_strip" /\ output.kind = "return") =>
        /\ output.value.size[1] =
               2 * MARGIN + COLS * PANEL_WIDTH + (COLS - 1) * GUTTER
        /\ output.value.size[2] =
               2 * MARGIN + HEADER_HEIGHT + ROWS * PANEL_HEIGHT
                   + (ROWS - 1) * GUTTER
        /\ output.value.size = <<1284, 1372>>

\* A strip composed from panels of which the whole second row is absent
C11_Witness ==
    /\ input.fn = "compose_comic_strip"
    /\ output.kind = "return"
    /\ input.panels = <<1, 2, 3, 0, 0, 0>>
    /\ output.value.size = <<1284, 1372>>

\* The outcomes of an attempt in which the response carried inline image data
InlineData == {"image", "bad_decode"}

\* C12 as stated: generate_panel_image issues at most MAX_RETRIES requests;
\* the first attempt that yields inline image data ends the call at once
\* with that image; None is returned only after exactly MAX_RETRIES failed
\* attempts.
C12_FirstInlineDataEndsCall ==
    input.fn = "generate_panel_image" =>
        /\ Len(output.log) <= MAX_RETRIES
        /\ \A i \in 1..Len(output.log) :
              output.log[i].outcome \in InlineData =>
                  /\ i = Len(output.log)
                  /\ output.kind = "return"
                  /\ output.value = input.prompt
        /\ (output.kind = "return" /\ output.value = 0) =>
              Len(output.log) = MAX_RETRIES

\* C12, amended: at most MAX_RETRIES requests; the first attempt whose
\* inline image data Image.open accepts ends the call at once with that
\* image (an attempt whose inline data does not decode is a failed attempt
\* like any other); None is returned only after exactly MAX_RETRIES failed
\* attempts, and the call ends in no other way.
C12_FirstDecodedImageEndsCall ==
    input.fn = "generate_panel_image" =>
        /\ Len(output.log) <= MAX_RETRIES
        /\ \A i \in 1..Len(output.log) :
              output.log[i].outcome = "image" =>
                  /\ i = Len(output.log)
                  /\ output.kind = "return"
                  /\ output.value = input.prompt
        /\ (output.kind = "return" /\ output.value = 0) =>
              /\ Len(output.log) = MAX_RETRIES
              /\ \A i \in 1..MAX_RETRIES : output.log[i].outcome # "image"
        /\ output.kind \in {"pending", "return"}
        /\ output.kind = "pending" => Len(output.log) < MAX_RETRIES

\* A call that got undecodable data, then nothing, then an image
C12_Witness ==
    /\ input.fn = "generate_panel_image"
    /\ output.kind = "return"
    /\ output.value = input.prompt
    /\ Len(output.log) = MAX_RETRIES
    /\ output.log[1].outcome = "bad_decode"
    /\ output.log[2].outcome = "no_candidates"

\* C13: generate_panel_image sleeps only between a failed attempt and the
\* next one: RETRY_BASE_DELAY * 2^0 = 2 s after failed attempt 1,
\* RETRY_BASE_DELAY * 2^1 = 4 s after failed attempt 2, and nothing after a
\* successful attempt or after the failed attempt number MAX_RETRIES; an
\* attempt that was followed by a sleep is never the last of the call.
C13_SleepOnlyBetweenAttempts ==
    input.fn = "generate_panel_image" =>
        \A i \in 1..Len(output.log) :
            LET entry == output.log[i]
            IN  /\ entry.outcome = "image" => entry.slept = 0
                /\ i = MAX_RETRIES => entry.slept = 0
                /\ (entry.outcome # "image" /\ i = 1) => entry.slept = 2
                /\ (entry.outcome # "image" /\ i = 2) => entry.slept = 4
                /\ entry.slept > 0 =>
                      (i < Len(output.log) \/ output.kind = "pending")
                /\ (output.kind = "return" /\ i = Len(output.log)) =>
                      entry.slept = 0

\* A call that failed three times: it slept 2 s, then 4 s, then returned None
C13_Witness ==
    /\ input.fn = "generate_panel_image"
    /\ output.kind = "return"
    /\ output.value = 0
    /\ Len(output.log) = MAX_RETRIES
    /\ output.log[1].slept = RETRY_BASE_DELAY
    /\ output.log[2].slept = 2 * RETRY_BASE_DELAY
    /\ output.log[3].slept = 0

\* C14: an exhausted failure at one position does not stop the batch: the
\* success count is evaluated (the gate is reached, passed or failed) only
\* when generation has been attempted for every one of the NUM_PANELS
\* positions.
C14_EveryPositionAttempted ==
    (pc = "gate" \/ pc \in PastGate \/ failure = "RuntimeError") =>
        /\ Len(panels) = Len(prompts)
        /\ Len(panels) = NUM_PANELS

\* The panel loop only ever appends the panel of the next position
C15_NextPosition ==
    panels' # panels =>
        \/ panels' = <<>>
        \/ /\ Len(panels) < Len(prompts)
           /\ \E p \in {0, prompts[Len(panels) + 1]} : panels' = Append(panels, p)

\* C15: panels are generated and placed in selection order.  The panel of
\* position i is generated after those of positions 1..i-1, from the prompt
\* of the i-th selected story; the image pasted in slot i-1 of the strip
\* (column (i-1) mod 3, row (i-1) div 3) is that panel, and the story the
\* metadata records under "panel": i is that same i-th selected story, also
\* when other positions are absent.
C15_SlotOrderIsSelectionOrder ==
    /\ [][C15_NextPosition]_vars
    /\ [](\A i \in 1..Len(prompts) : prompts[i] = selected[i])
    /\ [](strip # <<>> =>
            /\ {c.slot : c \in strip[1].pastes} =
                   {i - 1 : i \in {j \in 1..Len(panels) : panels[j] # 0}}
            /\ \A c \in strip[1].pastes :
                  /\ c.image = prompts[c.slot + 1]
                  /\ c.image = selected[c.slot + 1]
                  /\ c.at = <<MARGIN + (c.slot % 3) * (PANEL_WIDTH + GUTTER),
                              MARGIN + HEADER_HEIGHT
                                  + (c.slot \div 3) * (PANEL_HEIGHT + GUTTER)>>
                  /\ "date.json" \in written =>
                        /\ json[today][1].stories[c.slot + 1].panel = c.slot + 1
                        /\ json[today][1].stories[c.slot + 1].story = c.image)

\* A completed run with a permuted selection whose second panel is absent:
\* the fourth slot holds the image of the fourth selected story, story 6
C15_Witness ==
    /\ pc = "done"
    /\ selected = <<3, 1, 2, 6, 5, 4>>
    /\ panels[2] = 0
    /\ \E c \in strip[1].pastes : c.slot = 3 /\ c.image = 6
    /\ json[today][1].stories[4] = [panel |-> 4, story |-> 6]

\* The order of the phases of one run
PhaseOrder ==
    {<<"fetch", "select">>, <<"select", "prompts">>, <<"prompts", "panels">>,
     <<"panels", "gate">>, <<"gate", "compose">>, <<"compose", "save_png">>,
     <<"save_png", "save_jpg">>, <<"save_jpg", "save_metadata">>,
     <<"save_metadata", "update_latest_images">>,
     <<"update_latest_images", "update_archive">>, <<"update_archive", "done">>}

\* A step of a run moves to the next phase, ends the run, or stays; a failed
\* text-generation request of the prompt phase ends the run at once and
\* changes nothing else
C16_Step ==
    /\ (pc' # pc /\ run' = run) => (<<pc, pc'>> \in PhaseOrder \/ pc' = "failed")
    /\ (pc = "prompts" /\ pc' # "prompts") =>
          \/ pc' = "panels" /\ Len(prompts') = Len(selected)
          \/ /\ pc' = "failed"
             /\ failure' = "APIError"
             /\ UNCHANGED <<prompts, panels, attempt, delays, strip, written,
                            files, completed>>
    /\ (pc = "prompts" /\ pc' = "prompts") => Len(prompts') = Len(prompts) + 1

\* C16: the phases of a run happen strictly in the order selection, all
\* prompt syntheses, all panel generations, composition, persistence; a
\* failed text-generation request during prompt synthesis ends the run
\* fatally and without a retry, before any image-generation request and
\* before any file is written.
C16_PhasesInOrder ==
    /\ [][C16_Step]_vars
    /\ [](pc \in {"fetch", "select", "prompts"} =>
            /\ panels = <<>> /\ attempt = 1 /\ delays = <<>>
            /\ strip = <<>> /\ written = {})
    /\ []((pc = "panels" \/ panels # <<>>) => Len(prompts) = Len(selected))
    /\ []((pc = "panels" \/ pc = "gate") => (strip = <<>> /\ written \subseteq {"panel.png"}))
    /\ [](strip # <<>> => Len(panels) = Len(prompts))
    /\ [](written \cap Published # {} => strip # <<>>)
    /\ []((pc = "failed" /\ failure = "APIError") =>
            /\ panels = <<>> /\ attempt = 1 /\ delays = <<>>
            /\ strip = <<>> /\ written = {})

\* A run that died of a failed text-generation request after three of its
\* prompts had been synthesised
C16_Witness ==
    /\ pc = "failed"
    /\ failure = "APIError"
    /\ Len(prompts) = 3
    /\ Len(selected) = NUM_PANELS
    /\ written = {}

\* The number of valid (1..n) indices the response text yields: those of the
\* first integer-array substring, none if there is no such substring or it
\* is not a well-formed array
ValidIndices(n, text) ==
    LET m == re_search(Strip(text))
    IN  IF m = <<>> THEN 0
        ELSE IF ~json_loads(m).ok THEN 0
        ELSE Cardinality({k \in 1..Len(json_loads(m).value) :
                             json_loads(m).value[k] \in 1..n})

\* C17: select_stories returns the first NUM_PANELS stories in source order
\* whenever the response has no integer-array substring or yields fewer
\* than NUM_PANELS valid indices (feeds of at least NUM_PANELS stories).
C17_FallbackWhenTooFewIndices ==
    (input.fn = "select_stories" /\ output.kind # "pending"
        /\ input.n >= NUM_PANELS
        /\ ValidIndices(input.n, input.text) < NUM_PANELS) =>
            output = [kind |-> "return", exc |-> "none",
                      value |-> [i \in 1..NUM_PANELS |-> i]]

\* archive.json changes only in the last step of a run that has written the
\* artifacts of its date, and no date leaves it
C18_ArchiveStep ==
    /\ archive' # archive =>
          /\ pc = "update_archive"
          /\ pc' = "done"
          /\ {"date.png", "date.jpg", "date.json", "latest.json", "latest-1.jpg"}
                 \subseteq written
          /\ Entries(today)' # {}
    /\ \A d \in Dates : Entries(d) # {} => Entries(d)' # {}

\* C18: the archive is updated last.  In every reachable state, also after
\* a run that died at any step of persistence, a date with an entry in
\* archive.json has its {date}.png, {date}.jpg and {date}.json, written by
\* a run for that date, and latest.json and latest-1.jpg exist; archive.json
\* never loses an entry.
C18_ArchiveEntryImpliesArtifacts ==
    /\ [][C18_ArchiveStep]_vars
    /\ [](\A d \in Dates :
            Entries(d) # {} =>
                /\ d \in png
                /\ jpg[d] # 0
                /\ json[d] # <<>>
                /\ json[d][1].date = d
                /\ latest_json # <<>>
                /\ latest1 # 0)
    /\ [](\A i \in 1..Len(LoadArchive(archive).comics) :
            LoadArchive(archive).comics[i].date \in Dates)

\* A second run, for a date not yet in the archive, died in persistence
\* after it had written its {date}.jpg; the entry of the first run is there
C18_Witness ==
    /\ Len(completed) = 1
    /\ pc = "failed"
    /\ failure = "OSError"
    /\ jpg[today] = run
    /\ Entries(today) = {}
    /\ Entries(completed[1]) # {}

\* C19: the metadata of a completed run does not depend on which panels
\* succeeded: {date}.json and latest.json hold the same document, with one
\* entry per selected story, numbered 1..n in selection order, the positions
\* whose panel is absent included.
C19_MetadataCoversEverySelectedStory ==
    pc = "done" =>
        /\ json[today] # <<>>
        /\ latest_json = json[today]
        /\ json[today][1].date = today
        /\ Len(json[today][1].stories) = Len(selected)
        /\ \A i \in 1..Len(selected) :
              /\ json[today][1].stories[i].panel = i
              /\ json[today][1].stories[i].story = selected[i]

\* A completed run whose third and sixth panels are absent
C19_Witness ==
    /\ pc = "done"
    /\ Len(selected) = NUM_PANELS
    /\ panels[3] = 0
    /\ panels[6] = 0
    /\ json[today][1].stories[3] = [panel |-> 3, story |-> selected[3]]
    /\ latest_json[1].stories[6] = [panel |-> 6, story |-> selected[6]]

\* The lowest pixel row the header text can reach: a line of text drawn at
\* y with a font of size s stays above y + 3s/2 (the line box of the Oswald
\* faces is 1.482 em; the default bitmap font is smaller)
HeaderTextBottom(strip_) ==
    LET title_bottom == strip_.title[2] + (3 * TITLE_FONT_SIZE) \div 2
        date_bottom  == strip_.date.at[2] + (3 * DATE_FONT_SIZE) \div 2
    IN  IF title_bottom > date_bottom THEN title_bottom ELSE date_bottom

\* Two rectangles <<x0, y0, x1, y1>> (bounds included) share no pixel
Disjoint(r, q) == r[3] < q[1] \/ q[3] < r[1] \/ r[4] < q[2] \/ q[4] < r[2]

=============================================================================
